---- MODULE Spec2Model ----
(***************************************************************************)
(* Model of the DAC (Dark Alpha Confidential) token program,               *)
(* programs/dac-token/src/lib.rs.                                          *)
(*                                                                         *)
(* The ledger state is the DacMint record, one DacAccount record per owner *)
(* (the account address is the PDA of [b"dac_account", dac_mint, owner]),  *)
(* the USDC held by the vault and by each user, and the state of the       *)
(* encrypted-value service the program calls by CPI: the plaintext hidden  *)
(* behind every handle it has issued and the decryption allowances.        *)
(*                                                                         *)
(* One action models one instruction, from account validation to the       *)
(* serialization of the accounts at exit.  An instruction that returns Err *)
(* leaves every account it touched as it was (the runtime discards the     *)
(* writes of a failed instruction, those of its CPIs included); the calls  *)
(* it attempted are still recorded in `last`.                              *)
(***************************************************************************)
EXTENDS Integers, Sequences, FiniteSets, TLC

\* ------------------------------------------------------------------ bounds
NumUsers == 2          \* identities (signers / owners)
MaxHandles == 5        \* handles the encrypted-value service issues in a run
ValueModulus == 2      \* scaled-down 2^128: hidden values are 0 .. ValueModulus-1
InitialFunds == 1      \* USDC each user starts with
ByteBase == 4          \* scaled-down 2^8: a byte is a digit 0 .. ByteBase-1, so
                       \* that eight of them stay within the checker's integers
MaxPlaintextLen == 9   \* longest buffer handed to parse_plaintext_to_u64 alone

\* -------------------------------------------------------- program constants
U64Bytes == 8          \* bytes parse_plaintext_to_u64 reads
Decimals == 6          \* "matches USDC - 6"

Users == 1 .. NumUsers
Values == 0 .. (ValueModulus - 1)
NoKey == 0             \* Pubkey::default(), the owner of a record not yet created
Malformed == -1        \* a ciphertext new_euint128 rejects

\* dac_mint    the DacMint record (one PDA, seed [b"dac_mint"])
\* accounts    owner -> DacAccount record (the PDA of the mint and the owner)
\* vault_usdc  USDC held by the vault token account
\* user_usdc   user -> USDC held by the user's token account
\* handles     encrypted-value service: handle h hides the value handles[h]
\* allowed     encrypted-value service: <<h, u>> when u may decrypt h
\* retired     history: the handles replaced in an account or paid out
\* received    history: account -> "Never" until a deposit or a transfer
\*             credits it, then "Credited", and "Withdrawn" once a withdraw
\*             has reset it since
\* last        the last instruction: inputs, ledger before, result, CPIs
VARIABLES dac_mint, accounts, vault_usdc, user_usdc, handles, allowed, retired, received, last

vars == <<dac_mint, accounts, vault_usdc, user_usdc, handles, allowed, retired, received, last>>

\* ------------------------------------------------------------- data model
\* enum AccountState
AccountState == {"Uninitialized", "Initialized", "Frozen"}

\* struct DacMint
DacMint == [authority : Users \cup {NoKey}, decimals : {0, Decimals},
            is_initialized : BOOLEAN, total_supply_handle : 0 .. MaxHandles]

\* struct DacAccount (mint is TRUE when the record points at the one DacMint)
DacAccount == [mint : BOOLEAN, owner : Users \cup {NoKey},
               balance_handle : 0 .. MaxHandles, state : AccountState]

\* One external call of an instruction: fn(a, b) returned r, ok or not.
Call(fn, a, b, r, ok) == [fn |-> fn, a |-> a, b |-> b, r |-> r, ok |-> ok]

\* The ledger as an instruction finds it.
Snapshot == [dac_mint |-> dac_mint, accounts |-> accounts,
             vault_usdc |-> vault_usdc, user_usdc |-> user_usdc]

\* What the last instruction was, the ledger it started from, what it
\* returned and which CPIs it made.
Log(op, user, acct, dst, handle, result, calls) ==
    [op |-> op, user |-> user, acct |-> acct, dst |-> dst, handle |-> handle,
     result |-> result, calls |-> calls, before |-> Snapshot]

\* ---------------------------------------------- encrypted-value service
\* The plaintext behind a handle; the service holds nothing for handle 0.
HiddenValue(h) == IF h = 0 THEN 0 ELSE handles[h]

\* The handle the service issues next.
NextHandle(hs) == Len(hs) + 1

\* e_add / e_sub on euint128: wrapping arithmetic on the hidden values.
EAddValue(x, y) == (x + y) % ValueModulus
ESubValue(x, y) == (x - y + ValueModulus) % ValueModulus

\* ------------------------------------------------------------- plaintext
RECURSIVE FromLeBytes(_)
\* u64::from_le_bytes: b[1] + ByteBase * (b[2] + ByteBase * (b[3] + ...
FromLeBytes(b) == IF b = <<>> THEN 0 ELSE Head(b) + ByteBase * FromLeBytes(Tail(b))

\* Result<u64>: Ok(value), or Err(DacError::InvalidPlaintext).
OkU64(value) == [ok |-> TRUE, value |-> value]
ErrInvalidPlaintext == [ok |-> FALSE, value |-> 0]

\* parse_plaintext_to_u64 converting the whole buffer, however long.
ParseWithoutTruncation(plaintext) ==
    IF Len(plaintext) < U64Bytes
    THEN OkU64(FromLeBytes(plaintext \o [i \in 1 .. (U64Bytes - Len(plaintext)) |-> 0]))
    ELSE OkU64(FromLeBytes(plaintext))

\* fn parse_plaintext_to_u64: a short buffer is copied into eight zero bytes,
\* the first eight bytes of a long one are converted to [u8; 8], which fails
\* when the slice is not eight bytes long.
parse_plaintext_to_u64(plaintext) ==
    IF Len(plaintext) < U64Bytes
    THEN OkU64(FromLeBytes(plaintext \o [i \in 1 .. (U64Bytes - Len(plaintext)) |-> 0]))
    ELSE LET bytes == SubSeq(plaintext, 1, U64Bytes)
         IN  IF Len(bytes) # U64Bytes THEN ErrInvalidPlaintext
             ELSE OkU64(FromLeBytes(bytes))

\* The little-endian buffer of n bytes that holds v.
RECURSIVE ToLeBytes(_, _)
ToLeBytes(v, n) == IF n = 0 THEN <<>> ELSE <<v % ByteBase>> \o ToLeBytes(v \div ByteBase, n - 1)

\* --------------------------------------------------------------- initial
\* Before any instruction: no record exists, the users hold their funds and
\* the service has issued no handle.
LedgerInit ==
    /\ dac_mint = [authority |-> NoKey, decimals |-> 0, is_initialized |-> FALSE,
                   total_supply_handle |-> 0]
    /\ accounts = [a \in Users |-> [mint |-> FALSE, owner |-> NoKey,
                                    balance_handle |-> 0, state |-> "Uninitialized"]]
    /\ vault_usdc = 0
    /\ user_usdc = [u \in Users |-> InitialFunds]
    /\ handles = <<>>
    /\ allowed = {}
    /\ retired = {}
    /\ received = [a \in Users |-> "Never"]

Init ==
    /\ LedgerInit
    /\ last = Log("init", NoKey, NoKey, NoKey, 0, "Ok", <<>>)

\* ---------------------------------------------------------- instructions
\* pub fn initialize_mint: `init` creates the one DacMint PDA.
initialize_mint(authority, decimals) ==
    /\ ~dac_mint.is_initialized
    /\ dac_mint' = [authority |-> authority, decimals |-> decimals,
                    is_initialized |-> TRUE, total_supply_handle |-> 0]
    /\ last' = Log("initialize_mint", authority, NoKey, NoKey, 0, "Ok", <<>>)
    /\ UNCHANGED <<accounts, vault_usdc, user_usdc, handles, allowed, retired, received>>

\* struct InitializeAccount: the dac_mint must exist and be initialized.
InitializeAccountConstraints ==
    IF ~dac_mint.is_initialized THEN "UninitializedMint" ELSE "Ok"

\* pub fn initialize_account: `init` creates the record of `owner`.
initialize_account(payer, owner) ==
    /\ accounts[owner].state = "Uninitialized"
    /\ LET res == InitializeAccountConstraints IN
       /\ accounts' = IF res = "Ok"
                      THEN [accounts EXCEPT ![owner] =
                               [mint |-> TRUE, owner |-> owner, balance_handle |-> 0,
                                state |-> "Initialized"]]
                      ELSE accounts
       /\ last' = Log("initialize_account", payer, owner, NoKey, 0, res, <<>>)
    /\ UNCHANGED <<dac_mint, vault_usdc, user_usdc, handles, allowed, retired, received>>

\* Account<'info, DacAccount> can be loaded only once the record is created.
AccountLoads(a) == accounts[a].state # "Uninitialized"

\* The constraints with `dac_account.owner == user.key()` left out.
ConstraintsWithoutOwner(user, a) ==
    IF ~dac_mint.is_initialized \/ ~AccountLoads(a) THEN "AccountNotInitialized"
    ELSE IF accounts[a].state # "Initialized" THEN "AccountNotInitialized"
    ELSE "Ok"

\* struct Deposit / struct Withdraw: the constraints on dac_mint and
\* dac_account, in the order they are checked.
OwnerConstraints(user, a) ==
    IF ~dac_mint.is_initialized \/ ~AccountLoads(a) THEN "AccountNotInitialized"
    ELSE IF accounts[a].owner # user THEN "NotOwner"
    ELSE IF accounts[a].state # "Initialized" THEN "AccountNotInitialized"
    ELSE "Ok"

\* What an instruction that returns Err leaves behind: its error and the
\* CPIs it made before it; none of its writes.
Failed(res, calls) == [result |-> res, calls |-> calls]

\* deposit with the first-deposit branch taken always: the new handle
\* overwrites the balance and no e_add is made.
DepositOverwritingBalance(user, a, usdc_amount, ct, grant, fault) ==
    LET pre == OwnerConstraints(user, a)
        ok1 == user_usdc[user] >= usdc_amount
        c1  == Call("token_transfer_to_vault", usdc_amount, user, 0, ok1)
        h   == NextHandle(handles)
        ok2 == ct # Malformed
        c2  == Call("new_euint128", ct, 0, IF ok2 THEN h ELSE 0, ok2)
        ok4 == fault # "allow"
        c4  == Call("allow", h, user, 0, ok4)
    IN  IF pre # "Ok" THEN Failed(pre, <<>>)
        ELSE IF ~ok1 THEN Failed("CustodyTransferFailed", <<c1>>)
        ELSE IF ~ok2 THEN Failed("InvalidCiphertext", <<c1, c2>>)
        ELSE IF grant /\ ~ok4 THEN Failed("AccessGrantFailed", <<c1, c2, c4>>)
        ELSE [result |-> "Ok",
              calls |-> IF grant THEN <<c1, c2, c4>> ELSE <<c1, c2>>,
              balance |-> h,
              handles |-> Append(handles, ct),
              grants |-> IF grant THEN {<<h, user>>} ELSE {}]

\* deposit with the handle materialized before the custody transfer (lines
\* 79 and 68 swapped).
DepositMaterializingFirst(user, a, usdc_amount, ct, grant, fault) ==
    LET pre == OwnerConstraints(user, a)
        bal == accounts[a].balance_handle
        ok1 == user_usdc[user] >= usdc_amount
        c1  == Call("token_transfer_to_vault", usdc_amount, user, 0, ok1)
        h   == NextHandle(handles)
        ok2 == ct # Malformed
        c2  == Call("new_euint128", ct, 0, IF ok2 THEN h ELSE 0, ok2)
        hs2 == Append(handles, ct)
        ok3 == fault # "e_add"
        sum == NextHandle(hs2)
        c3  == Call("e_add", bal, h, IF ok3 THEN sum ELSE 0, ok3)
        nb  == IF bal = 0 THEN h ELSE sum
        cs3 == IF bal = 0 THEN <<c2, c1>> ELSE <<c2, c1, c3>>
        ok4 == fault # "allow"
        c4  == Call("allow", nb, user, 0, ok4)
    IN  IF pre # "Ok" THEN Failed(pre, <<>>)
        ELSE IF ~ok2 THEN Failed("InvalidCiphertext", <<c2>>)
        ELSE IF ~ok1 THEN Failed("CustodyTransferFailed", <<c2, c1>>)
        ELSE IF bal # 0 /\ ~ok3 THEN Failed("ArithmeticFailed", cs3)
        ELSE IF grant /\ ~ok4 THEN Failed("AccessGrantFailed", Append(cs3, c4))
        ELSE [result |-> "Ok",
              calls |-> IF grant THEN Append(cs3, c4) ELSE cs3,
              balance |-> nb,
              handles |-> IF bal = 0 THEN hs2
                          ELSE Append(hs2, EAddValue(HiddenValue(bal), ct)),
              grants |-> IF grant THEN {<<nb, user>>} ELSE {}]

\* deposit working on a copy of the account record (`let mut account =
\* ctx.accounts.dac_account.clone()` on line 82): the new balance is computed
\* and access to it granted, but the record keeps the balance it had.
DepositDroppingBalance(user, a, usdc_amount, ct, grant, fault) ==
    LET pre == OwnerConstraints(user, a)
        bal == accounts[a].balance_handle
        ok1 == user_usdc[user] >= usdc_amount
        c1  == Call("token_transfer_to_vault", usdc_amount, user, 0, ok1)
        h   == NextHandle(handles)
        ok2 == ct # Malformed
        c2  == Call("new_euint128", ct, 0, IF ok2 THEN h ELSE 0, ok2)
        hs2 == Append(handles, ct)
        ok3 == fault # "e_add"
        sum == NextHandle(hs2)
        c3  == Call("e_add", bal, h, IF ok3 THEN sum ELSE 0, ok3)
        nb  == IF bal = 0 THEN h ELSE sum
        cs3 == IF bal = 0 THEN <<c1, c2>> ELSE <<c1, c2, c3>>
        ok4 == fault # "allow"
        c4  == Call("allow", nb, user, 0, ok4)
    IN  IF pre # "Ok" THEN Failed(pre, <<>>)
        ELSE IF ~ok1 THEN Failed("CustodyTransferFailed", <<c1>>)
        ELSE IF ~ok2 THEN Failed("InvalidCiphertext", <<c1, c2>>)
        ELSE IF bal # 0 /\ ~ok3 THEN Failed("ArithmeticFailed", cs3)
        ELSE IF grant /\ ~ok4 THEN Failed("AccessGrantFailed", Append(cs3, c4))
        ELSE [result |-> "Ok",
              calls |-> IF grant THEN Append(cs3, c4) ELSE cs3,
              balance |-> bal,
              handles |-> IF bal = 0 THEN hs2
                          ELSE Append(hs2, EAddValue(HiddenValue(bal), ct)),
              grants |-> IF grant THEN {<<nb, user>>} ELSE {}]

\* pub fn deposit, lines 55-120: the constraints of the Deposit struct, then
\* the CPIs in order, each `?` an early return.  `fault` names the CPI that
\* the callee fails for reasons of its own.
DepositOutcome(user, a, usdc_amount, ct, grant, fault) ==
    LET pre == OwnerConstraints(user, a)
        bal == accounts[a].balance_handle
        ok1 == user_usdc[user] >= usdc_amount
        c1  == Call("token_transfer_to_vault", usdc_amount, user, 0, ok1)
        h   == NextHandle(handles)
        ok2 == ct # Malformed
        c2  == Call("new_euint128", ct, 0, IF ok2 THEN h ELSE 0, ok2)
        hs2 == Append(handles, ct)
        ok3 == fault # "e_add"
        sum == NextHandle(hs2)
        c3  == Call("e_add", bal, h, IF ok3 THEN sum ELSE 0, ok3)
        nb  == IF bal = 0 THEN h ELSE sum
        cs3 == IF bal = 0 THEN <<c1, c2>> ELSE <<c1, c2, c3>>
        ok4 == fault # "allow"
        c4  == Call("allow", nb, user, 0, ok4)
    IN  IF pre # "Ok" THEN Failed(pre, <<>>)
        ELSE IF ~ok1 THEN Failed("CustodyTransferFailed", <<c1>>)
        ELSE IF ~ok2 THEN Failed("InvalidCiphertext", <<c1, c2>>)
        ELSE IF bal # 0 /\ ~ok3 THEN Failed("ArithmeticFailed", cs3)
        ELSE IF grant /\ ~ok4 THEN Failed("AccessGrantFailed", Append(cs3, c4))
        ELSE [result |-> "Ok",
              calls |-> IF grant THEN Append(cs3, c4) ELSE cs3,
              balance |-> nb,
              handles |-> IF bal = 0 THEN hs2
                          ELSE Append(hs2, EAddValue(HiddenValue(bal), ct)),
              grants |-> IF grant THEN {<<nb, user>>} ELSE {}]

\* Handles a deposit into account a asks the service for.
DepositHandles(a) == IF accounts[a].balance_handle = 0 THEN 1 ELSE 2

\* deposit that keeps the registry's aggregate up to date: the balance it
\* commits is also written to dac_mint.total_supply_handle.
DepositUpdatingSupply(user, a, usdc_amount, ct, grant, fault) ==
    /\ Len(handles) + DepositHandles(a) <= MaxHandles
    /\ \E out \in {DepositOutcome(user, a, usdc_amount, ct, grant, fault)} :
          /\ last' = Log("deposit", user, a, NoKey, 0, out.result, out.calls)
          /\ IF out.result = "Ok"
             THEN /\ accounts' = [accounts EXCEPT ![a].balance_handle = out.balance]
                  /\ dac_mint' = [dac_mint EXCEPT !.total_supply_handle = out.balance]
                  /\ vault_usdc' = vault_usdc + usdc_amount
                  /\ user_usdc' = [user_usdc EXCEPT ![user] = @ - usdc_amount]
                  /\ handles' = out.handles
                  /\ allowed' = allowed \cup out.grants
                  /\ retired' = retired \cup ({accounts[a].balance_handle} \ {0})
                  /\ received' = [received EXCEPT ![a] = "Credited"]
             ELSE UNCHANGED <<dac_mint, accounts, vault_usdc, user_usdc, handles, allowed,
                              retired, received>>

\* The deposit instruction as the ledger sees it.
deposit(user, a, usdc_amount, ct, grant, fault) ==
    /\ Len(handles) + DepositHandles(a) <= MaxHandles
    /\ \E out \in {DepositOutcome(user, a, usdc_amount, ct, grant, fault)} :
          /\ last' = Log("deposit", user, a, NoKey, 0, out.result, out.calls)
          /\ IF out.result = "Ok"
             THEN /\ accounts' = [accounts EXCEPT ![a].balance_handle = out.balance]
                  /\ vault_usdc' = vault_usdc + usdc_amount
                  /\ user_usdc' = [user_usdc EXCEPT ![user] = @ - usdc_amount]
                  /\ handles' = out.handles
                  /\ allowed' = allowed \cup out.grants
                  /\ retired' = retired \cup ({accounts[a].balance_handle} \ {0})
                  /\ received' = [received EXCEPT ![a] = "Credited"]
             ELSE UNCHANGED <<accounts, vault_usdc, user_usdc, handles, allowed, retired,
                              received>>
    /\ UNCHANGED dac_mint

\* struct TransferDac: the constraints on source and destination, in order.
TransferConstraints(authority, src, dst) ==
    IF ~AccountLoads(src) \/ ~AccountLoads(dst) THEN "AccountNotInitialized"
    ELSE IF accounts[src].owner # authority THEN "NotOwner"
    ELSE IF accounts[src].state # "Initialized" THEN "AccountNotInitialized"
    ELSE IF accounts[dst].state # "Initialized" THEN "AccountNotInitialized"
    ELSE IF accounts[dst].mint # accounts[src].mint THEN "MintMismatch"
    ELSE "Ok"

\* transfer_tokens with the error of e_sub dropped (no `?` on line 149): the
\* source keeps its balance and the destination is credited all the same.
TransferIgnoringSubError(authority, src, dst, ct, grant, fault) ==
    LET pre  == TransferConstraints(authority, src, dst)
        sbal == accounts[src].balance_handle
        dbal == accounts[dst].balance_handle
        t    == NextHandle(handles)
        ok1  == ct # Malformed
        c1   == Call("new_euint128", ct, 0, IF ok1 THEN t ELSE 0, ok1)
        hs1  == Append(handles, ct)
        ok2  == fault # "e_sub"
        ns   == IF ok2 THEN NextHandle(hs1) ELSE sbal
        c2   == Call("e_sub", sbal, t, IF ok2 THEN ns ELSE 0, ok2)
        hs2  == IF ok2 THEN Append(hs1, ESubValue(HiddenValue(sbal), ct)) ELSE hs1
        sum  == NextHandle(hs2)
        ok3  == fault # "e_add"
        c3   == Call("e_add", dbal, t, IF ok3 THEN sum ELSE 0, ok3)
        nd   == IF dbal = 0 THEN t ELSE sum
        cs3  == IF dbal = 0 THEN <<c1, c2>> ELSE <<c1, c2, c3>>
        ok4  == fault # "allow"
        c4   == Call("allow", ns, accounts[src].owner, 0, ok4)
        ok5  == fault # "allow_destination"
        c5   == Call("allow", nd, accounts[dst].owner, 0, ok5)
    IN  IF pre # "Ok" THEN Failed(pre, <<>>)
        ELSE IF ~ok1 THEN Failed("InvalidCiphertext", <<c1>>)
        ELSE IF dbal # 0 /\ ~ok3 THEN Failed("ArithmeticFailed", cs3)
        ELSE IF grant /\ ~ok4 THEN Failed("AccessGrantFailed", Append(cs3, c4))
        ELSE IF grant /\ ~ok5 THEN Failed("AccessGrantFailed", cs3 \o <<c4, c5>>)
        ELSE [result |-> "Ok",
              calls |-> IF grant THEN cs3 \o <<c4, c5>> ELSE cs3,
              source |-> ns, destination |-> nd,
              handles |-> IF dbal = 0 THEN hs2
                          ELSE Append(hs2, EAddValue(HiddenValue(dbal), ct)),
              grants |-> IF grant
                         THEN {<<ns, accounts[src].owner>>, <<nd, accounts[dst].owner>>}
                         ELSE {}]

\* pub fn transfer_tokens, lines 123-201.  `source` and `destination` are two
\* deserialized copies, also when both name the same record: the destination
\* branch reads the balance the record had on entry.
TransferOutcome(authority, src, dst, ct, grant, fault) ==
    LET pre  == TransferConstraints(authority, src, dst)
        sbal == accounts[src].balance_handle
        dbal == accounts[dst].balance_handle
        t    == NextHandle(handles)
        ok1  == ct # Malformed
        c1   == Call("new_euint128", ct, 0, IF ok1 THEN t ELSE 0, ok1)
        hs1  == Append(handles, ct)
        ns   == NextHandle(hs1)
        ok2  == fault # "e_sub"
        c2   == Call("e_sub", sbal, t, IF ok2 THEN ns ELSE 0, ok2)
        hs2  == Append(hs1, ESubValue(HiddenValue(sbal), ct))
        sum  == NextHandle(hs2)
        ok3  == fault # "e_add"
        c3   == Call("e_add", dbal, t, IF ok3 THEN sum ELSE 0, ok3)
        nd   == IF dbal = 0 THEN t ELSE sum
        cs3  == IF dbal = 0 THEN <<c1, c2>> ELSE <<c1, c2, c3>>
        ok4  == fault # "allow"
        c4   == Call("allow", ns, accounts[src].owner, 0, ok4)
        ok5  == fault # "allow_destination"
        c5   == Call("allow", nd, accounts[dst].owner, 0, ok5)
    IN  IF pre # "Ok" THEN Failed(pre, <<>>)
        ELSE IF ~ok1 THEN Failed("InvalidCiphertext", <<c1>>)
        ELSE IF ~ok2 THEN Failed("ArithmeticFailed", <<c1, c2>>)
        ELSE IF dbal # 0 /\ ~ok3 THEN Failed("ArithmeticFailed", cs3)
        ELSE IF grant /\ ~ok4 THEN Failed("AccessGrantFailed", Append(cs3, c4))
        ELSE IF grant /\ ~ok5 THEN Failed("AccessGrantFailed", cs3 \o <<c4, c5>>)
        ELSE [result |-> "Ok",
              calls |-> IF grant THEN cs3 \o <<c4, c5>> ELSE cs3,
              source |-> ns, destination |-> nd,
              handles |-> IF dbal = 0 THEN hs2
                          ELSE Append(hs2, EAddValue(HiddenValue(dbal), ct)),
              grants |-> IF grant
                         THEN {<<ns, accounts[src].owner>>, <<nd, accounts[dst].owner>>}
                         ELSE {}]

\* Handles a transfer into account dst asks the service for.
TransferHandles(dst) == IF accounts[dst].balance_handle = 0 THEN 2 ELSE 3

\* transfer_tokens on a ledger that keeps the writes of a failed instruction:
\* the source balance assigned on line 150 stays when a later step fails.
TransferKeepingPartialWrites(authority, src, dst, ct, grant, fault) ==
    /\ Len(handles) + TransferHandles(dst) <= MaxHandles
    /\ \E out \in {TransferOutcome(authority, src, dst, ct, grant, fault)} :
          /\ last' = Log("transfer_tokens", authority, src, dst, 0, out.result, out.calls)
          /\ IF out.result = "Ok"
             THEN /\ accounts' = [accounts EXCEPT ![src].balance_handle = out.source,
                                                  ![dst].balance_handle = out.destination]
                  /\ handles' = out.handles
                  /\ allowed' = allowed \cup out.grants
                  /\ retired' = retired \cup ({accounts[src].balance_handle,
                                               accounts[dst].balance_handle} \ {0})
                  /\ received' = [received EXCEPT ![dst] = "Credited"]
             ELSE /\ accounts' =
                       IF \E i \in 1 .. Len(out.calls) :
                             out.calls[i].fn = "e_sub" /\ out.calls[i].ok
                       THEN [accounts EXCEPT ![src].balance_handle = NextHandle(handles) + 1]
                       ELSE accounts
                  /\ UNCHANGED <<handles, allowed, retired, received>>
    /\ UNCHANGED <<dac_mint, vault_usdc, user_usdc>>

\* The transfer_tokens instruction as the ledger sees it.  At exit the
\* accounts are written back in the order of the struct's fields, source and
\* then destination.
transfer_tokens(authority, src, dst, ct, grant, fault) ==
    /\ Len(handles) + TransferHandles(dst) <= MaxHandles
    /\ \E out \in {TransferOutcome(authority, src, dst, ct, grant, fault)} :
          /\ last' = Log("transfer_tokens", authority, src, dst, 0, out.result, out.calls)
          /\ IF out.result = "Ok"
             THEN /\ accounts' = [accounts EXCEPT ![src].balance_handle = out.source,
                                                  ![dst].balance_handle = out.destination]
                  /\ handles' = out.handles
                  /\ allowed' = allowed \cup out.grants
                  /\ retired' = retired \cup ({accounts[src].balance_handle,
                                               accounts[dst].balance_handle} \ {0})
                  /\ received' = [received EXCEPT ![dst] = "Credited"]
             ELSE UNCHANGED <<accounts, handles, allowed, retired, received>>
    /\ UNCHANGED <<dac_mint, vault_usdc, user_usdc>>

\* is_validsignature: the instruction carries the covalidator's signature
\* over (handle, plaintext).  The covalidator signs the decryption of a
\* handle for an address that was allowed to decrypt it.
Attested(user, h, plaintext) ==
    /\ h \in 1 .. Len(handles)
    /\ <<h, user>> \in allowed
    /\ FromLeBytes(plaintext) = handles[h]

\* withdraw with the error of the custody release dropped (no `?` on the
\* token::transfer of line 251): the balance is reset all the same.
WithdrawIgnoringCustodyError(user, a, h, plaintext, fault) ==
    LET pre    == OwnerConstraints(user, a)
        ok1    == Attested(user, h, plaintext)
        c1     == Call("is_validsignature", h, plaintext, 0, ok1)
        parsed == parse_plaintext_to_u64(plaintext)
        amount == parsed.value
        ok2    == fault # "token_transfer" /\ vault_usdc >= amount
        c2     == Call("token_transfer_from_vault", amount, user, 0, ok2)
    IN  IF pre # "Ok" THEN Failed(pre, <<>>)
        ELSE IF ~ok1 THEN Failed("ProofVerificationFailed", <<c1>>)
        ELSE IF ~parsed.ok THEN Failed("InvalidPlaintext", <<c1>>)
        ELSE IF ~(amount > 0) THEN Failed("ZeroAmount", <<c1>>)
        ELSE [result |-> "Ok", calls |-> <<c1, c2>>, balance |-> 0,
              amount |-> IF ok2 THEN amount ELSE 0]

\* withdraw with the error of is_validsignature dropped (no `?` on line 229).
WithdrawIgnoringProofError(user, a, h, plaintext, fault) ==
    LET pre    == OwnerConstraints(user, a)
        ok1    == Attested(user, h, plaintext)
        c1     == Call("is_validsignature", h, plaintext, 0, ok1)
        parsed == parse_plaintext_to_u64(plaintext)
        amount == parsed.value
        ok2    == fault # "token_transfer" /\ vault_usdc >= amount
        c2     == Call("token_transfer_from_vault", amount, user, 0, ok2)
    IN  IF pre # "Ok" THEN Failed(pre, <<>>)
        ELSE IF ~parsed.ok THEN Failed("InvalidPlaintext", <<c1>>)
        ELSE IF ~(amount > 0) THEN Failed("ZeroAmount", <<c1>>)
        ELSE IF ~ok2 THEN Failed("CustodyTransferFailed", <<c1, c2>>)
        ELSE [result |-> "Ok", calls |-> <<c1, c2>>, balance |-> 0, amount |-> amount]

\* withdraw without `require!(amount > 0, DacError::ZeroAmount)` (line 233).
WithdrawAllowingZero(user, a, h, plaintext, fault) ==
    LET pre    == OwnerConstraints(user, a)
        ok1    == Attested(user, h, plaintext)
        c1     == Call("is_validsignature", h, plaintext, 0, ok1)
        parsed == parse_plaintext_to_u64(plaintext)
        amount == parsed.value
        ok2    == fault # "token_transfer" /\ vault_usdc >= amount
        c2     == Call("token_transfer_from_vault", amount, user, 0, ok2)
    IN  IF pre # "Ok" THEN Failed(pre, <<>>)
        ELSE IF ~ok1 THEN Failed("ProofVerificationFailed", <<c1>>)
        ELSE IF ~parsed.ok THEN Failed("InvalidPlaintext", <<c1>>)
        ELSE IF ~ok2 THEN Failed("CustodyTransferFailed", <<c1, c2>>)
        ELSE [result |-> "Ok", calls |-> <<c1, c2>>, balance |-> 0, amount |-> amount]

\* pub fn withdraw, lines 206-259, after the constraints of the Withdraw struct.
WithdrawOutcome(user, a, h, plaintext, fault) ==
    LET pre    == OwnerConstraints(user, a)
        ok1    == Attested(user, h, plaintext)
        c1     == Call("is_validsignature", h, plaintext, 0, ok1)
        parsed == parse_plaintext_to_u64(plaintext)
        amount == parsed.value
        ok2    == fault # "token_transfer" /\ vault_usdc >= amount
        c2     == Call("token_transfer_from_vault", amount, user, 0, ok2)
    IN  IF pre # "Ok" THEN Failed(pre, <<>>)
        ELSE IF ~ok1 THEN Failed("ProofVerificationFailed", <<c1>>)
        ELSE IF ~parsed.ok THEN Failed("InvalidPlaintext", <<c1>>)
        ELSE IF ~(amount > 0) THEN Failed("ZeroAmount", <<c1>>)
        ELSE IF ~ok2 THEN Failed("CustodyTransferFailed", <<c1, c2>>)
        ELSE [result |-> "Ok", calls |-> <<c1, c2>>, balance |-> 0, amount |-> amount]

\* withdraw that closes the record it has paid out: with the balance reset
\* (line 255) the state is set to Frozen.
WithdrawFreezing(user, a, h, plaintext, fault) ==
    /\ \E out \in {WithdrawOutcome(user, a, h, plaintext, fault)} :
          /\ last' = Log("withdraw", user, a, NoKey, h, out.result, out.calls)
          /\ IF out.result = "Ok"
             THEN /\ accounts' = [accounts EXCEPT ![a].balance_handle = out.balance,
                                                  ![a].state = "Frozen"]
                  /\ vault_usdc' = vault_usdc - out.amount
                  /\ user_usdc' = [user_usdc EXCEPT ![user] = @ + out.amount]
                  /\ retired' = retired \cup {h}
                  /\ received' = [received EXCEPT ![a] =
                                     IF @ = "Never" THEN @ ELSE "Withdrawn"]
             ELSE UNCHANGED <<accounts, vault_usdc, user_usdc, retired, received>>
    /\ UNCHANGED <<dac_mint, handles, allowed>>

\* The withdraw instruction as the ledger sees it.
withdraw(user, a, h, plaintext, fault) ==
    /\ \E out \in {WithdrawOutcome(user, a, h, plaintext, fault)} :
          /\ last' = Log("withdraw", user, a, NoKey, h, out.result, out.calls)
          /\ IF out.result = "Ok"
             THEN /\ accounts' = [accounts EXCEPT ![a].balance_handle = out.balance]
                  /\ vault_usdc' = vault_usdc - out.amount
                  /\ user_usdc' = [user_usdc EXCEPT ![user] = @ + out.amount]
                  /\ retired' = retired \cup {h}
                  /\ received' = [received EXCEPT ![a] =
                                     IF @ = "Never" THEN @ ELSE "Withdrawn"]
             ELSE UNCHANGED <<accounts, vault_usdc, user_usdc, retired, received>>
    /\ UNCHANGED <<dac_mint, handles, allowed>>

\* ------------------------------------------------------------------ inputs
\* The mint authority; any signer can be it.
Authorities == {1}

\* usdc_amount: up to one more than a user can ever hold.
Amounts == 0 .. (InitialFunds + 1)

\* encrypted_amount: a ciphertext of each positive value, and one the
\* service rejects.
Ciphertexts == (Values \ {0}) \cup {Malformed}

\* The CPI the callee fails for reasons of its own, if any.  (A token
\* transfer into the vault fails when the user lacks the funds, new_euint128
\* when the ciphertext is malformed, is_validsignature when the proof is not
\* the covalidator's.)
DepositFaults(a, grant) ==
    {"none"} \cup (IF accounts[a].balance_handle # 0 THEN {"e_add"} ELSE {})
             \cup (IF grant THEN {"allow"} ELSE {})
TransferFaults(dst, grant) ==
    {"none", "e_sub"} \cup (IF accounts[dst].balance_handle # 0 THEN {"e_add"} ELSE {})
                      \cup (IF grant THEN {"allow", "allow_destination"} ELSE {})
WithdrawFaults(user, h, plaintext) ==
    {"none"} \cup (IF Attested(user, h, plaintext) THEN {"token_transfer"} ELSE {})

\* balance_handle: a handle the caller was allowed to decrypt, or none at all.
ProofHandles(user) == {0} \cup {h \in 1 .. Len(handles) : <<h, user>> \in allowed}

\* plaintext_amount: a value in a short buffer and in one longer than a u64.
PlaintextLens == {1, U64Bytes + 1}
Plaintexts == {ToLeBytes(v, n) : v \in Values, n \in PlaintextLens}

\* A failed instruction changes no variable but `last`, so whatever can follow
\* it can follow the state it started in: a run is followed up to its first
\* failed instruction.
Running == last.result = "Ok"

\* Every instruction, on every input.
InitializeMintStep ==
    Running /\ \E u \in Authorities : initialize_mint(u, Decimals)

InitializeAccountStep ==
    Running /\ \E p \in Users, o \in Users : initialize_account(p, o)

DepositStep ==
    /\ Running
    /\ \E u \in Users, a \in Users :
          IF OwnerConstraints(u, a) # "Ok"
          THEN deposit(u, a, 0, Malformed, FALSE, "none")
          ELSE \E amt \in Amounts, ct \in Ciphertexts, grant \in BOOLEAN :
                  \E fault \in DepositFaults(a, grant) :
                     deposit(u, a, amt, ct, grant, fault)

TransferStep ==
    /\ Running
    /\ \E u \in Users, src \in Users, dst \in Users :
          IF TransferConstraints(u, src, dst) # "Ok"
          THEN transfer_tokens(u, src, dst, Malformed, FALSE, "none")
          ELSE \E ct \in Ciphertexts, grant \in BOOLEAN :
                  \E fault \in TransferFaults(dst, grant) :
                     transfer_tokens(u, src, dst, ct, grant, fault)

WithdrawStep ==
    /\ Running
    /\ \E u \in Users, a \in Users :
          IF OwnerConstraints(u, a) # "Ok"
          THEN withdraw(u, a, 0, <<>>, "none")
          ELSE \E h \in ProofHandles(u), p \in Plaintexts :
                  \E fault \in WithdrawFaults(u, h, p) :
                     withdraw(u, a, h, p, fault)

Next ==
    \/ InitializeMintStep
    \/ InitializeAccountStep
    \/ DepositStep
    \/ TransferStep
    \/ WithdrawStep

Spec == Init /\ [][Next]_vars

\* ------------------------------------------- the plaintext decoder alone
\* The bytes tried: the least, the next and the greatest digit.
ByteSamples == {0, 1, ByteBase - 1}

\* Every buffer of up to MaxPlaintextLen sampled bytes.
Buffers == UNION {[1 .. n -> ByteSamples] : n \in 0 .. MaxPlaintextLen}

\* A caller holds a buffer; nothing has been decoded.
ParseInit ==
    /\ LedgerInit
    /\ \E b \in Buffers : last = [op |-> "plaintext", plaintext |-> b, returned |-> "none"]

\* The call parse_plaintext_to_u64(&plaintext) and what it returns.
ParseStep ==
    /\ last.op = "plaintext"
    /\ last' = [op |-> "parse_plaintext_to_u64", plaintext |-> last.plaintext,
                returned |-> parse_plaintext_to_u64(last.plaintext)]
    /\ UNCHANGED <<dac_mint, accounts, vault_usdc, user_usdc, handles, allowed, retired,
                   received>>

ParseNext == ParseStep

ParseSpec == ParseInit /\ [][ParseNext]_vars

\* ------------------------------------------------------------ vocabulary
\* The CPIs of the last instruction, by position.
CallIndices == 1 .. Len(last.calls)
Made(fn) == {i \in CallIndices : last.calls[i].fn = fn}
Succeeded(fn) == {i \in Made(fn) : last.calls[i].ok}
Rejected(fn) == {i \in Made(fn) : ~last.calls[i].ok}

\* The balance handles of all accounts.
Balances(accts) == [a \in Users |-> accts[a].balance_handle]

\* ---------------------------------------------------------------- claims
\* C1: withdraw is all-or-nothing for the account record.  A withdraw whose
\* proof verification fails, or whose custody release fails after the proof
\* verified, leaves the account's balance_handle as it was; and a
\* balance_handle becomes the sentinel 0 only in a withdraw whose custody
\* release succeeded.
C1_WithdrawAllOrNothing ==
    /\ (/\ last.op = "withdraw"
        /\ Rejected("is_validsignature") \cup Rejected("token_transfer_from_vault") # {})
          => accounts[last.acct].balance_handle
                = last.before.accounts[last.acct].balance_handle
    /\ \A x \in Users :
          (last.before.accounts[x].balance_handle # 0 /\ accounts[x].balance_handle = 0)
             => /\ last.op = "withdraw"
                /\ last.acct = x
                /\ Succeeded("token_transfer_from_vault") # {}

\* C1 witness: a withdraw whose proof verified and whose custody release
\* failed, on an account that holds a balance.
C1_Witness ==
    /\ last.op = "withdraw"
    /\ Succeeded("is_validsignature") # {}
    /\ Rejected("token_transfer_from_vault") # {}
    /\ accounts[last.acct].balance_handle # 0

\* C2: a custody release out of the vault is made only by a withdraw and
\* only after that withdraw's proof verification returned success; a withdraw
\* whose verification fails makes no custody call and fails.
C2_ReleaseOnlyAfterProof ==
    /\ \A i \in Made("token_transfer_from_vault") :
          /\ last.op = "withdraw"
          /\ \E j \in Succeeded("is_validsignature") : j < i
    /\ Rejected("is_validsignature") # {}
          => /\ Made("token_transfer_from_vault") = {}
             /\ Made("token_transfer_to_vault") = {}
             /\ last.result # "Ok"

\* C2 witness: a withdraw that released funds.
C2_Witness ==
    /\ last.op = "withdraw"
    /\ last.result = "Ok"
    /\ Succeeded("token_transfer_from_vault") # {}

\* The plaintext values hidden behind the balances of all accounts, summed.
RECURSIVE HiddenTotal(_)
HiddenTotal(S) ==
    IF S = {} THEN 0
    ELSE LET x == CHOOSE y \in S : TRUE
         IN  HiddenValue(accounts[x].balance_handle) + HiddenTotal(S \ {x})

\* C3: a successful withdraw releases the holder's own proven balance.  The
\* handle whose decryption proof was verified is the account's stored
\* balance_handle at the time of the call, never another handle and never
\* anything when the stored balance_handle is the sentinel 0.
C3_ReleasesOwnBalance ==
    (last.op = "withdraw" /\ last.result = "Ok")
       => /\ last.before.accounts[last.acct].balance_handle # 0
          /\ last.handle = last.before.accounts[last.acct].balance_handle

\* C4: a balance handle is never released twice.  Once a handle has been
\* replaced in an account by a deposit or a transfer, or has backed a
\* successful withdraw, no later withdraw succeeds on a proof for it.
C4_NoDoubleRelease ==
    [][(last'.op = "withdraw" /\ last'.result = "Ok") => last'.handle \notin retired]_vars

\* C5: balance conservation against custody.  The vault holds at least the
\* sum of the values hidden behind all balance handles, and a successful
\* deposit raises the depositor's hidden balance by exactly the usdc_amount
\* it moved into the vault.
C5_VaultCoversBalances ==
    /\ vault_usdc >= HiddenTotal(Users)
    /\ (last.op = "deposit" /\ last.result = "Ok")
          => HiddenValue(accounts[last.acct].balance_handle)
                = HiddenValue(last.before.accounts[last.acct].balance_handle)
                  + (vault_usdc - last.before.vault_usdc)

\* C6: the sentinel handle 0 is never an operand of the encrypted-value
\* service: no e_add or e_sub call of a deposit or a transfer has a 0 argument.
C6_SentinelNeverOperand ==
    \A i \in Made("e_add") \cup Made("e_sub") :
       last.calls[i].a # 0 /\ last.calls[i].b # 0

\* The accounts an instruction names.
Named == IF last.op = "transfer_tokens" THEN {last.acct, last.dst}
         ELSE IF last.op \in {"deposit", "withdraw"} THEN {last.acct}
         ELSE {}

\* The ledger is as the last instruction found it.
LedgerUntouched ==
    /\ accounts = last.before.accounts
    /\ vault_usdc = last.before.vault_usdc
    /\ user_usdc = last.before.user_usdc
    /\ dac_mint = last.before.dac_mint

\* C7: precondition checks fail fast with no side effects.  An instruction
\* that names an account whose state is not Initialized fails with
\* AccountNotInitialized; a deposit or withdraw by another identity than the
\* account's owner, and a transfer authorized by another identity than
\* source.owner, fails with NotOwner; a transfer between accounts of
\* different registries fails with MintMismatch.  In each case no CPI is made
\* and every account record, the registry and the vault are unchanged.
C7_PreconditionsFailFast ==
    LET was == last.before.accounts
        uninitialized == \E x \in Named : was[x].state # "Initialized"
        notOwner == was[last.acct].owner # last.user
        mismatch == was[last.dst].mint # was[last.acct].mint
    IN  Named # {} =>
          /\ uninitialized => last.result = "AccountNotInitialized"
          /\ (~uninitialized /\ notOwner) => last.result = "NotOwner"
          /\ (~uninitialized /\ ~notOwner /\ last.op = "transfer_tokens" /\ mismatch)
                => last.result = "MintMismatch"
          /\ last.result \in {"AccountNotInitialized", "NotOwner", "MintMismatch"}
                => (last.calls = <<>> /\ LedgerUntouched)

\* C7 witness: another identity than the owner tries to withdraw from an
\* account that holds a balance backed by funds in the vault.
C7_Witness ==
    /\ last.op = "withdraw"
    /\ last.result = "NotOwner"
    /\ accounts[last.acct].owner # last.user
    /\ accounts[last.acct].balance_handle # 0
    /\ vault_usdc > 0

\* C8: access-grant failures are non-fatal.  When an allow call of a deposit
\* or a transfer fails, the instruction still completes and the balances it
\* computed (the handles it asked access for) are committed.
C8_GrantFailureNonFatal ==
    Rejected("allow") # {} =>
       /\ last.result = "Ok"
       /\ \A i \in Made("allow") :
             \E x \in Named : accounts[x].balance_handle = last.calls[i].a

\* C9: the deposit balance rule.  A successful deposit materializes one
\* handle H; on a sentinel balance it makes no e_add and the new balance is
\* H; otherwise it makes exactly one e_add(prior balance, H) and the new
\* balance is the handle that call returned.
C9_DepositBalanceRule ==
    (last.op = "deposit" /\ last.result = "Ok") =>
       LET prior == last.before.accounts[last.acct].balance_handle
           now   == accounts[last.acct].balance_handle
       IN  \E m \in Succeeded("new_euint128") :
              /\ Made("new_euint128") = {m}
              /\ IF prior = 0
                 THEN Made("e_add") = {} /\ now = last.calls[m].r
                 ELSE \E i \in Succeeded("e_add") :
                         /\ Made("e_add") = {i}
                         /\ last.calls[i].a = prior
                         /\ last.calls[i].b = last.calls[m].r
                         /\ now = last.calls[i].r

\* C9 witness: a successful deposit onto a balance that was not the sentinel.
C9_Witness ==
    /\ last.op = "deposit"
    /\ last.result = "Ok"
    /\ last.before.accounts[last.acct].balance_handle # 0
    /\ Made("e_add") # {}

\* C10: the transfer balance rule.  A successful transfer materializes one
\* handle T and makes exactly one e_sub(source balance, T), whose result
\* becomes the source's balance_handle; the destination's balance_handle
\* becomes T with no e_add if it was the sentinel, and otherwise the result of
\* exactly one e_add(destination balance, T); it makes no custody call and
\* verifies no plaintext.
C10_TransferBalanceRule ==
    (last.op = "transfer_tokens" /\ last.result = "Ok") =>
       LET sprior == last.before.accounts[last.acct].balance_handle
           dprior == last.before.accounts[last.dst].balance_handle
       IN  /\ \E m \in Succeeded("new_euint128"), s \in Succeeded("e_sub") :
                 /\ Made("new_euint128") = {m}
                 /\ Made("e_sub") = {s}
                 /\ last.calls[s].a = sprior
                 /\ last.calls[s].b = last.calls[m].r
                 /\ accounts[last.acct].balance_handle = last.calls[s].r
                 /\ IF dprior = 0
                    THEN /\ Made("e_add") = {}
                         /\ accounts[last.dst].balance_handle = last.calls[m].r
                    ELSE \E i \in Succeeded("e_add") :
                            /\ Made("e_add") = {i}
                            /\ last.calls[i].a = dprior
                            /\ last.calls[i].b = last.calls[m].r
                            /\ accounts[last.dst].balance_handle = last.calls[i].r
           /\ Made("token_transfer_to_vault") = {}
           /\ Made("token_transfer_from_vault") = {}
           /\ Made("is_validsignature") = {}

\* C11: transfer ordering is fail-fast.  Within a transfer the e_sub on the
\* source is requested before any e_add on the destination; when materializing
\* the transfer handle or the e_sub on the source fails, no e_add is requested
\* and the destination's balance_handle is not modified.
C11_TransferFailFast ==
    last.op = "transfer_tokens" =>
       /\ \A i \in Made("e_add") : \E s \in Succeeded("e_sub") : s < i
       /\ \A s \in Made("e_sub") : \E m \in Succeeded("new_euint128") : m < s
       /\ Rejected("new_euint128") \cup Rejected("e_sub") # {}
             => /\ Made("e_add") = {}
                /\ last.result # "Ok"
                /\ accounts[last.dst].balance_handle
                      = last.before.accounts[last.dst].balance_handle

\* C11 witness: the e_sub of a transfer fails, and the destination holds a
\* balance that an e_add would have been asked to raise.
C11_Witness ==
    /\ last.op = "transfer_tokens"
    /\ Rejected("e_sub") # {}
    /\ last.acct # last.dst
    /\ accounts[last.dst].balance_handle # 0

\* C12: a deposit whose custody transfer from the holder to the vault fails
\* aborts before any encrypted state changes: no new_euint128, e_add or allow
\* call is made and the account's balance_handle is unchanged.
C12_CustodyFailureAbortsDeposit ==
    (last.op = "deposit" /\ Rejected("token_transfer_to_vault") # {}) =>
       /\ last.result = "CustodyTransferFailed"
       /\ Made("new_euint128") = {}
       /\ Made("e_add") = {}
       /\ Made("allow") = {}
       /\ accounts[last.acct].balance_handle
             = last.before.accounts[last.acct].balance_handle
       /\ vault_usdc = last.before.vault_usdc

\* C12 witness: the owner deposits more than they hold, with a well-formed
\* ciphertext, into an account that already holds a balance.
C12_Witness ==
    /\ last.op = "deposit"
    /\ Rejected("token_transfer_to_vault") # {}
    /\ last.user = accounts[last.acct].owner
    /\ accounts[last.acct].balance_handle # 0

\* C13: a withdraw whose verified plaintext decodes to exactly 0 fails with
\* ZeroAmount, makes no custody call and leaves the account's balance_handle
\* unchanged.
C13_ZeroAmountRejected ==
    last.op = "withdraw" =>
       \A i \in Succeeded("is_validsignature") :
          parse_plaintext_to_u64(last.calls[i].b) = OkU64(0)
             => /\ last.result = "ZeroAmount"
                /\ Made("token_transfer_from_vault") = {}
                /\ Made("token_transfer_to_vault") = {}
                /\ accounts[last.acct].balance_handle
                      = last.before.accounts[last.acct].balance_handle

\* C13 witness: the proof of a handle that hides 0 verified, for an account
\* that holds a balance.
C13_Witness ==
    /\ last.op = "withdraw"
    /\ \E i \in Succeeded("is_validsignature") :
          parse_plaintext_to_u64(last.calls[i].b) = OkU64(0)
    /\ accounts[last.acct].balance_handle # 0

\* b[1] * ByteBase^0 + ... + b[n] * ByteBase^(n-1), term by term.
RECURSIVE LittleEndianSum(_, _)
LittleEndianSum(b, n) ==
    IF n = 0 THEN 0 ELSE b[n] * ByteBase ^ (n - 1) + LittleEndianSum(b, n - 1)

\* C14: plaintext decoding.  For every byte buffer b, parse_plaintext_to_u64(b)
\* succeeds and returns the sum over i < min(len(b), 8) of b[i] * 256^i: the
\* empty buffer decodes to 0, a buffer of 1 to 8 bytes is zero-padded on the
\* high-order side, and a longer one is cut to its first 8 bytes without error.
C14_PlaintextDecoding ==
    last.op = "parse_plaintext_to_u64" =>
       LET b == last.plaintext
           n == IF Len(b) < U64Bytes THEN Len(b) ELSE U64Bytes
       IN  /\ last.returned.ok
           /\ last.returned.value = LittleEndianSum(b, n)
           /\ Len(b) = 0 => last.returned.value = 0
           /\ Len(b) \in 1 .. U64Bytes
                 => last.returned.value = LittleEndianSum(b \o <<0>>, Len(b) + 1)
           /\ Len(b) > U64Bytes
                 => last.returned.value = LittleEndianSum(SubSeq(b, 1, U64Bytes), U64Bytes)

\* C14 witness: a decoded buffer of more than 8 bytes whose eighth and ninth
\* bytes are not zero.
C14_Witness ==
    /\ last.op = "parse_plaintext_to_u64"
    /\ Len(last.plaintext) > U64Bytes
    /\ last.plaintext[U64Bytes] # 0
    /\ last.plaintext[U64Bytes + 1] # 0
    /\ last.returned.ok

\* C15: in every reachable state, an account whose balance_handle is the
\* sentinel 0 has never been the target of a successful deposit nor the
\* destination of a successful transfer, and the value it is owed (the value
\* behind its balance) is zero.
C15_SentinelNeverCredited ==
    \A x \in Users :
       accounts[x].balance_handle = 0
          => /\ received[x] = "Never"
             /\ HiddenValue(accounts[x].balance_handle) = 0

\* C15 as it holds: an account whose balance_handle is the sentinel 0 has been
\* the target of no successful deposit and the destination of no successful
\* transfer since it was created or since its last successful withdraw, and
\* the value behind its balance is zero.
C15_SentinelNotCreditedSinceReset ==
    \A x \in Users :
       accounts[x].balance_handle = 0
          => /\ received[x] \in {"Never", "Withdrawn"}
             /\ HiddenValue(accounts[x].balance_handle) = 0

\* C15 witness: an account that was credited and then reset by a withdraw is
\* at the sentinel, beside an account that holds a balance.
C15_Witness ==
    \E x \in Users, y \in Users :
       /\ accounts[x].balance_handle = 0
       /\ received[x] = "Withdrawn"
       /\ accounts[y].balance_handle # 0
       /\ received[y] = "Credited"

\* The owner, registry reference and state of a record.
Identity(rec) == [owner |-> rec.owner, mint |-> rec.mint, state |-> rec.state]

\* C16: account identity and lifecycle are stable.  After initialize_account,
\* no deposit, transfer or withdraw, successful or failed, changes any
\* account's owner, registry reference (mint) or state, and no reachable state
\* contains an account in state Frozen.
C16_IdentityStable ==
    /\ \A x \in Users :
          (/\ last.op \in {"deposit", "transfer_tokens", "withdraw"}
           /\ last.before.accounts[x].state # "Uninitialized")
             => Identity(accounts[x]) = Identity(last.before.accounts[x])
    /\ \A x \in Users :
          /\ accounts[x].state # "Frozen"
          /\ accounts[x].state = "Initialized"
                => (accounts[x].owner = x /\ accounts[x].mint)

\* C16 witness: a withdraw has just reset the balance of one initialized
\* account while another holds a balance.
C16_Witness ==
    /\ last.op = "withdraw"
    /\ last.result = "Ok"
    /\ last.before.accounts[last.acct].balance_handle # 0
    /\ accounts[last.acct].balance_handle = 0
    /\ accounts[last.acct].state = "Initialized"
    /\ \E y \in Users \ {last.acct} : accounts[y].balance_handle # 0

\* C17: the deposit frame.  A deposit changes only the target account's
\* balance_handle and the custody holdings of the depositor and of the vault;
\* the registry's total_supply_handle, every other registry field and the
\* balance_handle of every other account are unchanged.
C17_DepositFrame ==
    last.op = "deposit" =>
       /\ dac_mint = last.before.dac_mint
       /\ \A x \in Users \ {last.acct} : accounts[x] = last.before.accounts[x]
       /\ Identity(accounts[last.acct]) = Identity(last.before.accounts[last.acct])
       /\ \A u \in Users \ {last.user} : user_usdc[u] = last.before.user_usdc[u]
       /\ vault_usdc - last.before.vault_usdc
             = last.before.user_usdc[last.user] - user_usdc[last.user]

\* C17 witness: a deposit that moved funds and changed the target's balance,
\* while another account holds a balance.
C17_Witness ==
    /\ last.op = "deposit"
    /\ last.result = "Ok"
    /\ vault_usdc > last.before.vault_usdc
    /\ accounts[last.acct].balance_handle # last.before.accounts[last.acct].balance_handle
    /\ \E y \in Users \ {last.acct} : accounts[y].balance_handle # 0

C19_SelfTransferCreatesNoValue ==
    (last.op = "transfer_tokens" /\ last.acct = last.dst /\ last.result = "Ok")
       => /\ HiddenValue(accounts[last.acct].balance_handle)
                = HiddenValue(last.before.accounts[last.acct].balance_handle)
          /\ \A s \in Succeeded("e_sub") :
                \/ accounts[last.acct].balance_handle = last.calls[s].r
                \/ \E i \in Succeeded("e_add") :
                      /\ last.calls[i].a = last.calls[s].r
                      /\ accounts[last.acct].balance_handle = last.calls[i].r
====
